---- MODULE Spec2Model ----
(***************************************************************************)
(* Model of duet_charter_lib: the decoder of chart.rs (Chart::new and its   *)
(* four section decoders) and the phrase segmenter of phrases.rs           *)
(* (LyricPhraseCollection::new / parse_phrases_from, encode, Display for   *)
(* Phrase), of main of lyric_charter_bin, and of Main::update of           *)
(* lyric_charter_web with the messages sent to it.                         *)
(*                                                                         *)
(* Strings are TLA+ strings; a character is a string of length 1.          *)
(* A u32 is modelled with TimestampBits bits: U32Max stands for u32::MAX   *)
(* and `x + 1` on a u32 either panics (overflow checks on, the debug       *)
(* profile) or wraps modulo U32Max + 1 (overflow checks off, the release   *)
(* profile).                                                               *)
(***************************************************************************)
EXTENDS Integers, Sequences, FiniteSets, TLC

VARIABLES
    chart_file, \* the argument of Chart::new: the text of a .chart file
    section,    \* the [Events] block handed to decode_lyrics: its matched lines
    properties, \* Chart.properties : HashMap<String, String>
    lyrics,     \* Chart.lyrics : Vec<LyricEvent>
    tempo_map,  \* Chart.tempo_map : Vec<TempoEvent>
    key_presses,\* Chart.key_presses : HashMap<String, Vec<KeyPressEvent>>
    error,      \* the message of the Err returned by the decoder, or None
    phrases,    \* the LyricPhraseCollection returned by new, or NoCollection
    encoded,    \* the Vec<LyricEvent> returned by encode, or None
    out_file,   \* the content of the CLI's destination file, or None
    chart,      \* Main.chart : Option<Chart>
    readers,    \* Main.readers : file name -> the state of its FileReader
    queue,      \* the messages sent to the component and not yet delivered
    picks,      \* how many times the user has picked a file
    loaded,     \* whether update has handled a Loaded message
    stored,     \* the chart of the most recent Loaded that decoded, or None
    pc          \* "file" | "text" | "decoded" | "error" | "segmented" |
                \* "encoded" | "written" | "running" | "panicked"

\* the state of the web component besides error and phrases
web_vars == <<chart, readers, queue, picks, loaded, stored>>

vars == <<chart_file, section, properties, lyrics, tempo_map, key_presses, error,
          phrases, encoded, out_file, web_vars, pc>>

----------------------------------------------------------------------------
(* Bounds *)

\* width of the modelled u32
TimestampBits == 5
\* the small timestamps of the enumerated inputs are 0..MaxTick
MaxTick == 1
\* longest enumerated [Events] block
MaxTextLen == 2
\* longest enumerated input mixing all eight event kinds
MaxMixedLen == 3
\* how many times the user of the viewer picks a file
MaxPicks == 2
\* longest enumerated input made of the events of a single vocal track
MaxTrackLen == 4
\* most lines of a section of an enumerated one-section .chart file
MaxSectionLines == 2

U32Max == 2^TimestampBits - 1

\* u64::MAX of the modelled u64, twice as wide as the modelled u32
U64Max == 2^(2 * TimestampBits) - 1

----------------------------------------------------------------------------
(* Strings *)

CharAt(s, i) == SubSeq(s, i, i)

LastChar(s) == CharAt(s, Len(s))

Digits == <<"0", "1", "2", "3", "4", "5", "6", "7", "8", "9">>

IsDigit(c) == \E d \in 1..10 : Digits[d] = c

DigitValue(c) == (CHOOSE d \in 1..10 : Digits[d] = c) - 1

\* str::trim, for the space character
RECURSIVE TrimStart(_)
TrimStart(s) ==
    IF Len(s) > 0 /\ CharAt(s, 1) = " " THEN TrimStart(SubSeq(s, 2, Len(s))) ELSE s

RECURSIVE TrimEnd(_)
TrimEnd(s) ==
    IF Len(s) > 0 /\ LastChar(s) = " " THEN TrimEnd(SubSeq(s, 1, Len(s) - 1)) ELSE s

Trim(s) == TrimStart(TrimEnd(s))

\* the value of a run of digits, capped above U32Max so that it stays small
RECURSIVE DecimalValue(_, _)
DecimalValue(s, acc) ==
    IF Len(s) = 0 THEN acc
    ELSE IF acc > U32Max THEN acc
    ELSE DecimalValue(SubSeq(s, 2, Len(s)), 10 * acc + DigitValue(CharAt(s, 1)))

ParseFailed == -1

\* <u32 as FromStr>::from_str: an optional '+', then one or more digits, the
\* value at most u32::MAX; ParseFailed for an Err
ParseU32(s) ==
    LET body == IF Len(s) > 0 /\ CharAt(s, 1) = "+" THEN SubSeq(s, 2, Len(s)) ELSE s
    IN  IF Len(body) = 0 \/ \E i \in 1..Len(body) : ~IsDigit(CharAt(body, i))
        THEN ParseFailed
        ELSE IF DecimalValue(body, 0) > U32Max THEN ParseFailed
        ELSE DecimalValue(body, 0)

\* the parse! macro: $str.trim().parse()
Parse(str) == ParseU32(Trim(str))

\* the value of a run of digits, capped above U64Max
RECURSIVE DecimalValue64(_, _)
DecimalValue64(s, acc) ==
    IF Len(s) = 0 THEN acc
    ELSE IF acc > U64Max THEN acc
    ELSE DecimalValue64(SubSeq(s, 2, Len(s)), 10 * acc + DigitValue(CharAt(s, 1)))

\* <u64 as FromStr>::from_str
ParseU64(s) ==
    LET body == IF Len(s) > 0 /\ CharAt(s, 1) = "+" THEN SubSeq(s, 2, Len(s)) ELSE s
    IN  IF Len(body) = 0 \/ \E i \in 1..Len(body) : ~IsDigit(CharAt(body, i))
        THEN ParseFailed
        ELSE IF DecimalValue64(body, 0) > U64Max THEN ParseFailed
        ELSE DecimalValue64(body, 0)

\* the parse! macro where the target type is u64
Parse64(str) == ParseU64(Trim(str))

\* <str as Debug>::fmt: the string in double quotes, its quotes and
\* backslashes escaped
RECURSIVE EscapeDebug(_, _)
EscapeDebug(s, i) ==
    IF i > Len(s) THEN ""
    ELSE (IF CharAt(s, i) \in {"\"", "\\"} THEN "\\" ELSE "") \o CharAt(s, i)
         \o EscapeDebug(s, i + 1)

DebugFormat(str) == "\"" \o EscapeDebug(str, 1) \o "\""

\* a Result::Err whose Report displays `message`
Err(message) == [kind |-> "Err", message |-> message]

\* the Err of the parse! macro: .wrap_err(format!("{:?}", $str))
ParseError(str) == Err(DebugFormat(str))

\* str::replace(ch, ""): the characters of s from position i on, ch left out
RECURSIVE RemoveCharFrom(_, _, _)
RemoveCharFrom(s, ch, i) ==
    IF i > Len(s) THEN ""
    ELSE IF CharAt(s, i) = ch THEN RemoveCharFrom(s, ch, i + 1)
    ELSE CharAt(s, i) \o RemoveCharFrom(s, ch, i + 1)

RemoveChar(s, ch) == RemoveCharFrom(s, ch, 1)

\* the position of the first ch of s at or after position i, 0 when there is none
RECURSIVE IndexFrom(_, _, _)
IndexFrom(s, ch, i) ==
    IF i > Len(s) THEN 0
    ELSE IF CharAt(s, i) = ch THEN i
    ELSE IndexFrom(s, ch, i + 1)

\* str::split_once(' '): the position of the first space, 0 for None
FirstSpace(s) == IndexFrom(s, " ", 1)

\* content.split_once(' ').unwrap_or((&*content, ""))
SplitOnceOrWhole(content) ==
    LET i == FirstSpace(content)
    IN  IF i = 0 THEN <<content, "">>
        ELSE <<SubSeq(content, 1, i - 1), SubSeq(content, i + 1, Len(content))>>

\* Option<T>: None is the empty sequence, Some(x) is <<x>>
None == <<>>
Some(x) == <<x>>

----------------------------------------------------------------------------
(* chart.rs: LyricEvent *)

PhraseStart(t) == [kind |-> "PhraseStart", timestamp |-> t]
PhraseEnd(t) == [kind |-> "PhraseEnd", timestamp |-> t]
Lyric(t, text) == [kind |-> "Lyric", timestamp |-> t, text |-> text]
Section(t, text) == [kind |-> "Section", timestamp |-> t, text |-> text]
DuetPhraseStart(t) == [kind |-> "DuetPhraseStart", timestamp |-> t]
DuetPhraseEnd(t) == [kind |-> "DuetPhraseEnd", timestamp |-> t]
DuetLyric(t, text) == [kind |-> "DuetLyric", timestamp |-> t, text |-> text]
OtherLyricEvent(code, t, content) ==
    [kind |-> "OtherLyricEvent", code |-> code, timestamp |-> t, content |-> content]

get_timestamp(event) == event.timestamp

----------------------------------------------------------------------------
(* chart.rs: Chart::decode_lyrics *)

\* One match of line_regex: the captures named timestamp, type and content.
Captures(timestamp, type, content) ==
    [timestamp |-> timestamp, type |-> type, content |-> content]

\* Mutation of DecodeLyricLine: the quotes of the content are not removed.
DecodeLyricLine_KeepQuotes(captures) ==
    LET timestamp == Parse(captures.timestamp)
        code == captures.type
        content == captures.content
        split == SplitOnceOrWhole(content)
        content_type == split[1]
        text == split[2]
    IN  IF timestamp = ParseFailed THEN ParseError(captures.timestamp)
        ELSE IF code = "E" /\ content_type = "section" THEN Section(timestamp, text)
        ELSE IF code = "E" /\ content_type = "phrase_start" THEN PhraseStart(timestamp)
        ELSE IF code = "E" /\ content_type = "lyric" THEN Lyric(timestamp, text)
        ELSE IF code = "E" /\ content_type = "phrase_end" THEN PhraseEnd(timestamp)
        ELSE IF code = "E" /\ content_type = "duet_phrase_start"
             THEN DuetPhraseStart(timestamp)
        ELSE IF code = "E" /\ content_type = "duet_lyric" THEN DuetLyric(timestamp, text)
        ELSE IF code = "E" /\ content_type = "duet_phrase_end"
             THEN DuetPhraseEnd(timestamp)
        ELSE OtherLyricEvent(code, timestamp, content)

\* the closure of decode_lyrics: one LyricEvent, or the Err of parse!
DecodeLyricLine(captures) ==
    LET timestamp == Parse(captures.timestamp)
        code == captures.type
        content == RemoveChar(captures.content, "\"")
        split == SplitOnceOrWhole(content)
        content_type == split[1]
        text == split[2]
    IN  IF timestamp = ParseFailed THEN ParseError(captures.timestamp)
        ELSE IF code = "E" /\ content_type = "section" THEN Section(timestamp, text)
        ELSE IF code = "E" /\ content_type = "phrase_start" THEN PhraseStart(timestamp)
        ELSE IF code = "E" /\ content_type = "lyric" THEN Lyric(timestamp, text)
        ELSE IF code = "E" /\ content_type = "phrase_end" THEN PhraseEnd(timestamp)
        ELSE IF code = "E" /\ content_type = "duet_phrase_start"
             THEN DuetPhraseStart(timestamp)
        ELSE IF code = "E" /\ content_type = "duet_lyric" THEN DuetLyric(timestamp, text)
        ELSE IF code = "E" /\ content_type = "duet_phrase_end"
             THEN DuetPhraseEnd(timestamp)
        ELSE OtherLyricEvent(code, timestamp, content)

\* a Result::Ok
Ok(value) == [kind |-> "Ok", value |-> value]

\* a closure that panicked instead of returning
Panic == [kind |-> "Panic"]

Failed(result) == result.kind \in {"Err", "Panic"}

\* Mutation of Collect: the results that failed are left out.
Collect_SkipFailed(results) == Ok(SelectSeq(results, LAMBDA r : ~Failed(r)))

\* .map(closure).collect::<Result<Vec<_>>>(): the closure runs on the matches
\* in order and the first Err (or panic) ends the iteration
Collect(results) ==
    IF \E i \in 1..Len(results) : Failed(results[i])
    THEN results[CHOOSE i \in 1..Len(results) :
                    /\ Failed(results[i])
                    /\ \A j \in 1..(i - 1) : ~Failed(results[j])]
    ELSE Ok(results)

\* .map(..).collect::<Result<Vec<LyricEvent>>>()
new_lyrics(lines) == [i \in 1..Len(lines) |-> DecodeLyricLine(lines[i])]

\* decode_lyrics on the [Events] block: Err on the first line that fails, and
\* otherwise lyrics.extend(new_lyrics)
decode_lyrics ==
    /\ pc = "text"
    /\ LET decoded == Collect(new_lyrics(section))
       IN  IF decoded.kind = "Err"
           THEN /\ pc' = "error"
                /\ error' = Some(decoded.message)
                /\ lyrics' = lyrics
           ELSE /\ pc' = "decoded"
                /\ error' = error
                /\ lyrics' = lyrics \o decoded.value
    /\ UNCHANGED <<chart_file, section, properties, tempo_map, key_presses, phrases,
                   encoded, out_file, web_vars>>

----------------------------------------------------------------------------
(* phrases.rs: Phrase, PhraseLyric, LyricPhraseCollection *)

PhraseLyric(timestamp, text) == [timestamp |-> timestamp, text |-> text]

Phrase(start_timestamp, end_timestamp, phrase_lyrics) ==
    [start_timestamp |-> start_timestamp,
     end_timestamp |-> end_timestamp,
     lyrics |-> phrase_lyrics]

UnwrapOr(option, default) == IF option = None THEN default ELSE option[1]

\* slice::get
Get(seq, i) == IF i \in 1..Len(seq) THEN Some(seq[i]) ELSE None

\* Mutation of DuetOnly: plain Lyric events are kept instead of dropped.
DuetOnly_KeepPlainLyric(lyrics_events) ==
    LET duet == SelectSeq(lyrics_events,
                    LAMBDA event : event.kind \in
                        {"DuetPhraseStart", "DuetPhraseEnd", "DuetLyric", "Lyric"})
    IN  [i \in 1..Len(duet) |->
            IF duet[i].kind = "DuetPhraseStart" THEN PhraseStart(duet[i].timestamp)
            ELSE IF duet[i].kind = "DuetPhraseEnd" THEN PhraseEnd(duet[i].timestamp)
            ELSE Lyric(duet[i].timestamp, duet[i].text)]

\* the duet_only projection of new
DuetOnly(lyrics_events) ==
    LET duet == SelectSeq(lyrics_events,
                    LAMBDA event : event.kind \in
                        {"DuetPhraseStart", "DuetPhraseEnd", "DuetLyric"})
    IN  [i \in 1..Len(duet) |->
            IF duet[i].kind = "DuetPhraseStart" THEN PhraseStart(duet[i].timestamp)
            ELSE IF duet[i].kind = "DuetPhraseEnd" THEN PhraseEnd(duet[i].timestamp)
            ELSE Lyric(duet[i].timestamp, duet[i].text)]

\* Mutation of PhraseStartTimestamps: a DuetPhraseStart opens a phrase too.
PhraseStartTimestamps_AnyStart(lyric_events) ==
    LET starts == SelectSeq(lyric_events,
                      LAMBDA x : x.kind \in {"PhraseStart", "DuetPhraseStart"})
    IN  [i \in 1..Len(starts) |-> starts[i].timestamp]

\* the timestamps of parse_phrases_from: every PhraseStart, in input order
PhraseStartTimestamps(lyric_events) ==
    LET starts == SelectSeq(lyric_events, LAMBDA x : x.kind = "PhraseStart")
    IN  [i \in 1..Len(starts) |-> starts[i].timestamp]

\* Mutation of InWindow: a lyric at the timestamp `high` is taken too.
InWindow_Inclusive(lyric, low, high) ==
    /\ (high = None \/ UnwrapOr(high, 0) >= get_timestamp(lyric))
    /\ get_timestamp(lyric) >= low

\* the first filter of the lyrics of a phrase
InWindow(lyric, low, high) ==
    /\ (high = None \/ UnwrapOr(high, 0) > get_timestamp(lyric))
    /\ get_timestamp(lyric) >= low

\* Mutation of PhraseLyrics: a DuetLyric is collected like a Lyric.
PhraseLyrics_AnyLyric(lyric_events, low, high) ==
    LET in_window == SelectSeq(lyric_events, LAMBDA lyric : InWindow(lyric, low, high))
        only_lyrics == SelectSeq(in_window,
                           LAMBDA lyric : lyric.kind \in {"Lyric", "DuetLyric"})
    IN  [j \in 1..Len(only_lyrics) |->
            PhraseLyric(only_lyrics[j].timestamp, only_lyrics[j].text)]

\* the lyrics of the phrase of window (low, high)
PhraseLyrics(lyric_events, low, high) ==
    LET in_window == SelectSeq(lyric_events, LAMBDA lyric : InWindow(lyric, low, high))
        only_lyrics == SelectSeq(in_window, LAMBDA lyric : lyric.kind = "Lyric")
    IN  [j \in 1..Len(only_lyrics) |->
            PhraseLyric(only_lyrics[j].timestamp, only_lyrics[j].text)]

\* Mutation of IsPhraseEndOf: the bound `high` is not looked at.
IsPhraseEndOf_NoUpperBound(x, low, high) ==
    /\ get_timestamp(x) > low
    /\ x.kind = "PhraseEnd"

\* the predicate of the find that looks for the end of a phrase
IsPhraseEndOf(x, low, high) ==
    /\ (high = None \/ UnwrapOr(high, 0) >= get_timestamp(x))
    /\ get_timestamp(x) > low
    /\ x.kind = "PhraseEnd"

\* Mutation of MaybeTimestamp: the last match is taken, not the first.
MaybeTimestamp_Last(lyric_events, low, high) ==
    LET found == SelectSeq(lyric_events, LAMBDA x : IsPhraseEndOf(x, low, high))
    IN  IF Len(found) = 0 THEN None ELSE Some(found[Len(found)])

\* maybe_timestamp: the first event the find accepts
MaybeTimestamp(lyric_events, low, high) ==
    LET found == SelectSeq(lyric_events, LAMBDA x : IsPhraseEndOf(x, low, high))
    IN  IF Len(found) = 0 THEN None ELSE Some(found[1])

\* the end_timestamp match, with the mathematical value of `+ 1`: a value above
\* U32Max is an overflowed addition
EndTimestamp(maybe_timestamp, high, phrase_lyrics, low) ==
    IF maybe_timestamp # None THEN get_timestamp(maybe_timestamp[1])
    ELSE IF high # None THEN high[1]
    ELSE IF Len(phrase_lyrics) > 0 THEN phrase_lyrics[Len(phrase_lyrics)].timestamp + 1
    ELSE low + 1

\* Mutation of parse_phrases_from: the phrases come out in reverse input order.
parse_phrases_from_Reversed(lyric_events) ==
    LET timestamps == PhraseStartTimestamps(lyric_events)
        n == Len(timestamps)
    IN  [i \in 1..n |->
            LET low == timestamps[n + 1 - i]
                high == Get(timestamps, n + 2 - i)
                phrase_lyrics == PhraseLyrics(lyric_events, low, high)
                maybe_timestamp == MaybeTimestamp(lyric_events, low, high)
            IN  Phrase(low,
                       EndTimestamp(maybe_timestamp, high, phrase_lyrics, low),
                       phrase_lyrics)]

\* parse_phrases_from, end_timestamp not yet reduced to 32 bits
parse_phrases_from(lyric_events) ==
    LET timestamps == PhraseStartTimestamps(lyric_events)
    IN  [i \in 1..Len(timestamps) |->
            LET low == timestamps[i]
                high == Get(timestamps, i + 1)
                phrase_lyrics == PhraseLyrics(lyric_events, low, high)
                maybe_timestamp == MaybeTimestamp(lyric_events, low, high)
            IN  Phrase(low,
                       EndTimestamp(maybe_timestamp, high, phrase_lyrics, low),
                       phrase_lyrics)]

\* some `+ 1` of parse_phrases_from overflowed
AddOverflowed(phrase_seq) ==
    \E i \in 1..Len(phrase_seq) : phrase_seq[i].end_timestamp > U32Max

\* the phrases as a build without overflow checks stores them: u32 wraps
Wrapping(phrase_seq) ==
    [i \in 1..Len(phrase_seq) |->
        Phrase(phrase_seq[i].start_timestamp,
               phrase_seq[i].end_timestamp % (U32Max + 1),
               phrase_seq[i].lyrics)]

NoCollection == None

\* LyricPhraseCollection::new. An overflowed `+ 1` panics when the build has
\* overflow checks and wraps when it has none.
New ==
    /\ pc = "decoded"
    /\ LET main == parse_phrases_from(lyrics)
           duet == parse_phrases_from(DuetOnly(lyrics))
       IN  \E overflow_checks \in BOOLEAN :
               IF overflow_checks /\ (AddOverflowed(main) \/ AddOverflowed(duet))
               THEN /\ pc' = "panicked"
                    /\ phrases' = phrases
               ELSE /\ pc' = "segmented"
                    /\ phrases' = [main_phrases |-> Wrapping(main),
                                   duet_phrases |-> Wrapping(duet)]
    /\ UNCHANGED <<chart_file, section, properties, lyrics, tempo_map, key_presses,
                   error, encoded, out_file, web_vars>>

----------------------------------------------------------------------------
(* phrases.rs: impl Display for Phrase *)

\* the second map of fmt: the syllable without its hyphen, or with a space
Syllable(x) ==
    IF Len(x) > 0 /\ LastChar(x) = "-" THEN SubSeq(x, 1, Len(x) - 1) ELSE x \o " "

\* .collect::<String>()
RECURSIVE Line(_)
Line(phrase_lyrics) ==
    IF Len(phrase_lyrics) = 0 THEN ""
    ELSE Syllable(Head(phrase_lyrics).text) \o Line(Tail(phrase_lyrics))

CleanLine(line) ==
    IF Len(line) > 0 /\ LastChar(line) = " " THEN SubSeq(line, 1, Len(line) - 1) ELSE line

\* Mutation of Display: only the line is written, without its "from .. to ..".
Display_LineOnly(phrase) == CleanLine(Line(phrase.lyrics))

\* Display::fmt
Display(phrase) ==
    "from " \o ToString(phrase.start_timestamp) \o " to "
        \o ToString(phrase.end_timestamp) \o ", phrase: "
        \o CleanLine(Line(phrase.lyrics))

\* .iter().map(ToString::to_string).collect::<String>()
RECURSIVE Rendering(_)
Rendering(phrase_seq) ==
    IF Len(phrase_seq) = 0 THEN ""
    ELSE Display(Head(phrase_seq)) \o Rendering(Tail(phrase_seq))

----------------------------------------------------------------------------
(* chart.rs: KeyPressEvent, TempoEvent *)

Note(t, duration, key) ==
    [kind |-> "Note", timestamp |-> t, duration |-> duration, key |-> key]
Special(t, special_type, duration) ==
    [kind |-> "Special", timestamp |-> t, special_type |-> special_type,
     duration |-> duration]
TextEvent(t, content) == [kind |-> "TextEvent", timestamp |-> t, content |-> content]
OtherKeyPress(code, t, content) ==
    [kind |-> "OtherKeyPress", code |-> code, timestamp |-> t, content |-> content]

Beat(t, milli_bpm) == [kind |-> "Beat", timestamp |-> t, milli_bpm |-> milli_bpm]
TimeSignature(t, time_signature) ==
    [kind |-> "TimeSignature", timestamp |-> t, time_signature |-> time_signature]
Anchor(t, song_microseconds) ==
    [kind |-> "Anchor", timestamp |-> t, song_microseconds |-> song_microseconds]
\* Mutation of OtherTempoEvent: the content of the line is not kept.
OtherTempoEvent_NoContent(code, t, content) ==
    [kind |-> "OtherTempoEvent", code |-> code, timestamp |-> t, content |-> ""]

OtherTempoEvent(code, t, content) ==
    [kind |-> "OtherTempoEvent", code |-> code, timestamp |-> t, content |-> content]

----------------------------------------------------------------------------
(* chart.rs: the regexes of Chart::new and decode_properties *)

Letters ==
    {"a", "b", "c", "d", "e", "f", "g", "h", "i", "j", "k", "l", "m",
     "n", "o", "p", "q", "r", "s", "t", "u", "v", "w", "x", "y", "z",
     "A", "B", "C", "D", "E", "F", "G", "H", "I", "J", "K", "L", "M",
     "N", "O", "P", "Q", "R", "S", "T", "U", "V", "W", "X", "Y", "Z"}

\* \w
IsWord(c) == c \in Letters \/ IsDigit(c) \/ c = "_"

\* [\n\r]
IsLineBreak(c) == c \in {"\n", "\r"}

\* s has `prefix` at position i
StartsWith(s, i, prefix) ==
    /\ i + Len(prefix) - 1 <= Len(s)
    /\ SubSeq(s, i, i + Len(prefix) - 1) = prefix

\* \d+ from position i: the last position of the longest run, i - 1 when empty
RECURSIVE DigitRunEnd(_, _)
DigitRunEnd(s, i) ==
    IF i <= Len(s) /\ IsDigit(CharAt(s, i)) THEN DigitRunEnd(s, i + 1) ELSE i - 1

\* \w+ from position i
RECURSIVE WordRunEnd(_, _)
WordRunEnd(s, i) ==
    IF i <= Len(s) /\ IsWord(CharAt(s, i)) THEN WordRunEnd(s, i + 1) ELSE i - 1

\* [^\n\r]+ from position i
RECURSIVE LineRunEnd(_, _)
LineRunEnd(s, i) ==
    IF i <= Len(s) /\ ~IsLineBreak(CharAt(s, i)) THEN LineRunEnd(s, i + 1) ELSE i - 1

\* [^ =]+ from position i
RECURSIVE KeyRunEnd(_, _)
KeyRunEnd(s, i) ==
    IF i <= Len(s) /\ CharAt(s, i) \notin {" ", "="} THEN KeyRunEnd(s, i + 1) ELSE i - 1

\* line_regex tried at position p:
\*   " {2}(?P<timestamp>\d+) = (?P<type>\w+) (?P<content>[^\n\r]+)"
\* None, or Some of the captures and the last position of the match. The
\* character after each greedy run is outside the class of the run, so the
\* longest run is the only one that can match.
LineRegexAt(s, p) ==
    LET d == DigitRunEnd(s, p + 2)
        w == WordRunEnd(s, d + 4)
        c == LineRunEnd(s, w + 2)
    IN  IF /\ StartsWith(s, p, "  ")
           /\ d >= p + 2
           /\ StartsWith(s, d + 1, " = ")
           /\ w >= d + 4
           /\ StartsWith(s, w + 1, " ")
           /\ c >= w + 2
        THEN Some([captures |-> Captures(SubSeq(s, p + 2, d),
                                         SubSeq(s, d + 4, w),
                                         SubSeq(s, w + 2, c)),
                   end |-> c])
        ELSE None

\* regex.captures_iter(section): the leftmost match at or after position p,
\* then the matches after its end
RECURSIVE captures_iter(_, _)
captures_iter(s, p) ==
    IF p > Len(s) THEN <<>>
    ELSE IF LineRegexAt(s, p) = None THEN captures_iter(s, p + 1)
    ELSE <<LineRegexAt(s, p)[1].captures>>
         \o captures_iter(s, LineRegexAt(s, p)[1].end + 1)

\* the regex of decode_properties tried at position p:
\*   " {2}(?P<property>[^ =]+) = (?P<content>[^\n\r]+)"
PropertyRegexAt(s, p) ==
    LET k == KeyRunEnd(s, p + 2)
        c == LineRunEnd(s, k + 4)
    IN  IF /\ StartsWith(s, p, "  ")
           /\ k >= p + 2
           /\ StartsWith(s, k + 1, " = ")
           /\ c >= k + 4
        THEN Some([property |-> SubSeq(s, p + 2, k),
                   content |-> SubSeq(s, k + 4, c),
                   end |-> c])
        ELSE None

\* header_regex.find(section), "\[(?P<header>[^]]+)]": the leftmost '[' that
\* is followed by one or more characters other than ']' and then a ']'
RECURSIVE HeaderFindFrom(_, _)
HeaderFindFrom(s, p) ==
    IF p > Len(s) THEN None
    ELSE IF CharAt(s, p) = "[" /\ IndexFrom(s, "]", p + 1) > p + 1
    THEN Some(SubSeq(s, p, IndexFrom(s, "]", p + 1)))
    ELSE HeaderFindFrom(s, p + 1)

\* Mutation of HeaderFind: a section without a header counts as [Events].
HeaderFind_DefaultEvents(s) ==
    IF HeaderFindFrom(s, 1) = None THEN Some("[Events]") ELSE HeaderFindFrom(s, 1)

HeaderFind(s) == HeaderFindFrom(s, 1)

\* str::split(ch): the pieces between the occurrences of ch, from position i
RECURSIVE SplitFrom(_, _, _)
SplitFrom(s, ch, i) ==
    IF IndexFrom(s, ch, i) = 0 THEN <<SubSeq(s, i, Len(s))>>
    ELSE <<SubSeq(s, i, IndexFrom(s, ch, i) - 1)>>
         \o SplitFrom(s, ch, IndexFrom(s, ch, i) + 1)

Split(s, ch) == SplitFrom(s, ch, 1)

----------------------------------------------------------------------------
(* chart.rs: Chart::decode_tempo_map *)

\* 2_u32.pow(exponent) overflows
PowOverflowed(exponent) == exponent >= TimestampBits

\* 2_u32.pow(exponent) as the wrapping multiplication computes it
WrappingPow2(exponent) == IF PowOverflowed(exponent) THEN 0 ELSE 2^exponent

\* args.next().map_or(2, |x| parse!(x).unwrap_or(2))
Exponent(args) ==
    IF Get(args, 2) = None THEN 2
    ELSE IF Parse(args[2]) = ParseFailed THEN 2
    ELSE Parse(args[2])

\* the closure of decode_tempo_map: one TempoEvent, an Err, or the panic of
\* pow when overflow checks are on
DecodeTempoLine(captures, overflow_checks) ==
    LET timestamp == Parse(captures.timestamp)
        type == captures.type
        content == captures.content
        args == Split(content, " ")
        pre_numerator == Get(args, 1)
        numerator == Parse(pre_numerator[1])
    IN  IF timestamp = ParseFailed THEN ParseError(captures.timestamp)
        ELSE IF type = "A"
        THEN IF Parse64(content) = ParseFailed THEN ParseError(content)
             ELSE Anchor(timestamp, Parse64(content))
        ELSE IF type = "B"
        THEN IF Parse64(content) = ParseFailed THEN ParseError(content)
             ELSE Beat(timestamp, Parse64(content))
        ELSE IF type = "TS"
        THEN IF pre_numerator = None THEN Err("No numerator found in " \o content)
             ELSE IF numerator = ParseFailed THEN ParseError(pre_numerator[1])
             ELSE IF overflow_checks /\ PowOverflowed(Exponent(args)) THEN Panic
             ELSE TimeSignature(timestamp, <<numerator, WrappingPow2(Exponent(args))>>)
        ELSE OtherTempoEvent(type, timestamp, content)

new_tempo_map(s, overflow_checks) ==
    LET matches == captures_iter(s, 1)
    IN  [i \in 1..Len(matches) |-> DecodeTempoLine(matches[i], overflow_checks)]

----------------------------------------------------------------------------
(* chart.rs: Chart::decode_key_presses *)

\* Mutation of DecodeKeyPressLine: an N or S line without a second field gets
\* the duration 0.
DecodeKeyPressLine_DefaultDuration(captures) ==
    LET timestamp == Parse(captures.timestamp)
        content == captures.content
        type == captures.type
        i == FirstSpace(content)
        first_str == IF i = 0 THEN content ELSE SubSeq(content, 1, i - 1)
        duration_str == IF i = 0 THEN "0" ELSE SubSeq(content, i + 1, Len(content))
    IN  IF timestamp = ParseFailed THEN ParseError(captures.timestamp)
        ELSE IF type \in {"N", "S"}
        THEN IF Parse(first_str) = ParseFailed THEN ParseError(first_str)
             ELSE IF Parse(duration_str) = ParseFailed THEN ParseError(duration_str)
             ELSE IF type = "N"
             THEN Note(timestamp, Parse(duration_str), Parse(first_str))
             ELSE Special(timestamp, Parse(first_str), Parse(duration_str))
        ELSE IF type = "E" THEN TextEvent(timestamp, content)
        ELSE OtherKeyPress(type, timestamp, content)

\* the closure of decode_key_presses: one KeyPressEvent or an Err
DecodeKeyPressLine(captures) ==
    LET timestamp == Parse(captures.timestamp)
        content == captures.content
        type == captures.type
        i == FirstSpace(content)
        first_str == SubSeq(content, 1, i - 1)
        duration_str == SubSeq(content, i + 1, Len(content))
    IN  IF timestamp = ParseFailed THEN ParseError(captures.timestamp)
        ELSE IF type \in {"N", "S"}
        THEN IF i = 0 THEN Err("No duration found")
             ELSE IF Parse(first_str) = ParseFailed THEN ParseError(first_str)
             ELSE IF Parse(duration_str) = ParseFailed THEN ParseError(duration_str)
             ELSE IF type = "N"
             THEN Note(timestamp, Parse(duration_str), Parse(first_str))
             ELSE Special(timestamp, Parse(first_str), Parse(duration_str))
        ELSE IF type = "E" THEN TextEvent(timestamp, content)
        ELSE OtherKeyPress(type, timestamp, content)

new_notes(s) ==
    LET matches == captures_iter(s, 1)
    IN  [i \in 1..Len(matches) |-> DecodeKeyPressLine(matches[i])]

----------------------------------------------------------------------------
(* chart.rs: Chart::decode_properties, Chart::new *)

\* Mutation of Insert: a key already in the map keeps its value.
Insert_KeepFirst(map, key, value) ==
    [k \in DOMAIN map \cup {key} |-> IF k \in DOMAIN map THEN map[k] ELSE value]

\* HashMap::insert
Insert(map, key, value) ==
    [k \in DOMAIN map \cup {key} |-> IF k = key THEN value ELSE map[k]]

\* HashMap::new()
EmptyMap == [k \in {} |-> k]

\* Mutation of decode_properties: only the first match is inserted.
RECURSIVE decode_properties_FirstMatch(_, _, _)
decode_properties_FirstMatch(map, s, p) ==
    IF p > Len(s) THEN map
    ELSE IF PropertyRegexAt(s, p) = None THEN decode_properties_FirstMatch(map, s, p + 1)
    ELSE [k \in DOMAIN map \cup {PropertyRegexAt(s, p)[1].property} |->
            IF k = PropertyRegexAt(s, p)[1].property
            THEN PropertyRegexAt(s, p)[1].content
            ELSE map[k]]

\* decode_properties: every match of the regex, from position p on, inserted
RECURSIVE decode_properties(_, _, _)
decode_properties(map, s, p) ==
    IF p > Len(s) THEN map
    ELSE IF PropertyRegexAt(s, p) = None THEN decode_properties(map, s, p + 1)
    ELSE decode_properties(
            Insert(map, PropertyRegexAt(s, p)[1].property, PropertyRegexAt(s, p)[1].content),
            s, PropertyRegexAt(s, p)[1].end + 1)

\* the four output variables of Chart::new as declared
EmptyChart ==
    [properties |-> EmptyMap, lyrics |-> <<>>, tempo_map |-> <<>>,
     key_presses |-> EmptyMap]

\* the lyric events of the matches of a section
section_lyrics(s) ==
    LET matches == captures_iter(s, 1)
    IN  new_lyrics(matches)

\* the match on the header: the section decoder applied to the outputs so far
DecodeSection(header, s, output, overflow_checks) ==
    IF header = "Song"
    THEN Ok([output EXCEPT !.properties = decode_properties(@, s, 1)])
    ELSE IF header = "SyncTrack"
    THEN LET decoded == Collect(new_tempo_map(s, overflow_checks))
         IN  IF decoded.kind = "Ok"
             THEN Ok([output EXCEPT !.tempo_map = @ \o decoded.value])
             ELSE decoded
    ELSE IF header = "Events"
    THEN LET decoded == Collect(section_lyrics(s))
         IN  IF decoded.kind = "Ok"
             THEN Ok([output EXCEPT !.lyrics = @ \o decoded.value])
             ELSE decoded
    ELSE LET decoded == Collect(new_notes(s))
         IN  IF decoded.kind = "Ok"
             THEN Ok([output EXCEPT !.key_presses =
                        Insert(@, RemoveChar(RemoveChar(header, "["), "]"),
                               decoded.value)])
             ELSE decoded

\* the loop of Chart::new over chart_file.split('}'), from section i on: a
\* section without a header is passed over, the `?` returns the first Err
RECURSIVE DecodeSections(_, _, _, _)
DecodeSections(sections, i, output, overflow_checks) ==
    IF i > Len(sections) THEN Ok(output)
    ELSE IF HeaderFind(sections[i]) = None
    THEN DecodeSections(sections, i + 1, output, overflow_checks)
    ELSE LET header == RemoveChar(RemoveChar(HeaderFind(sections[i])[1], "["), "]")
             result == DecodeSection(header, sections[i], output, overflow_checks)
         IN  IF result.kind = "Ok"
             THEN DecodeSections(sections, i + 1, result.value, overflow_checks)
             ELSE result

\* Chart::new(chart_file). Whether overflow checks are compiled in is a
\* property of the build; it is chosen here.
ChartNew ==
    /\ pc = "file"
    /\ \E overflow_checks \in BOOLEAN :
        \E result \in {DecodeSections(Split(chart_file, "}"), 1, EmptyChart,
                                      overflow_checks)} :
            IF result.kind = "Ok"
            THEN /\ pc' = "decoded"
                 /\ properties' = result.value.properties
                 /\ lyrics' = result.value.lyrics
                 /\ tempo_map' = result.value.tempo_map
                 /\ key_presses' = result.value.key_presses
                 /\ error' = error
            ELSE /\ pc' = IF result.kind = "Err" THEN "error" ELSE "panicked"
                 /\ error' = IF result.kind = "Err" THEN Some(result.message) ELSE error
                 /\ UNCHANGED <<properties, lyrics, tempo_map, key_presses>>
    /\ UNCHANGED <<chart_file, section, phrases, encoded, out_file, web_vars>>

----------------------------------------------------------------------------
(* The inputs *)

Ticks == (0..MaxTick) \cup {U32Max}

Quoted(s) == "\"" \o s \o "\""

EventLine(t, words) == Captures(ToString(t), "E", Quoted(words))

\* the events of the main vocal track, and those of the duet track
MainEvents ==
    {PhraseStart(t) : t \in Ticks} \cup {PhraseEnd(t) : t \in Ticks}
        \cup {Lyric(t, "lo") : t \in Ticks}

DuetEvents ==
    {DuetPhraseStart(t) : t \in Ticks} \cup {DuetPhraseEnd(t) : t \in Ticks}
        \cup {DuetLyric(t, "la") : t \in Ticks}

\* the events of every kind
MixedEvents ==
    MainEvents \cup DuetEvents
        \cup {Section(t, "Verse") : t \in Ticks}
        \cup {OtherLyricEvent("E", t, "idle") : t \in Ticks}

\* lines of an [Events] block, one for each event kind and timestamp
MixedLines ==
    {EventLine(t, words) : t \in Ticks,
        words \in {"phrase_start", "phrase_end", "lyric lo",
                   "duet_phrase_start", "duet_phrase_end", "duet_lyric la",
                   "section Verse", "idle"}}

\* the block of the scenario of the specification
ScenarioSection ==
    << Captures("10", "E", "\"phrase_start\""),
       Captures("12", "E", "\"lyric\" \"Hel-\""),
       Captures("14", "E", "\"lyric\" \"lo\""),
       Captures("16", "E", "\"phrase_end\""),
       Captures("20", "E", "\"phrase_start\""),
       Captures("22", "E", "\"lyric\" \"World\"") >>

\* a block whose phrase is the two words "Hi" and "there"
HiThereSection ==
    << Captures("10", "E", "\"phrase_start\""),
       Captures("12", "E", "\"lyric Hi\""),
       Captures("14", "E", "\"lyric there\"") >>

\* a block whose phrase ends with a lyric line that carries no text
EmptyLyricSection ==
    << Captures("10", "E", "\"phrase_start\""),
       Captures("12", "E", "\"lyric Hi\""),
       Captures("14", "E", "\"lyric\"") >>

\* a block whose timestamp does not fit a u32
OversizedSection == << Captures(ToString(U32Max + 1), "E", "\"phrase_start\"") >>

\* the lines of the enumerated [SyncTrack] sections
SyncTrackLines ==
    { "  0 = TS 4", "  0 = TS 4 3", "  0 = TS 4 " \o ToString(TimestampBits),
      "  0 = TS", "  0 = TS x", "  0 = TS 4 x",
      "  0 = B 120", "  0 = B x", "  0 = A 100", "  0 = A x", "  0 = X 7",
      "  " \o ToString(U32Max + 1) \o " = B 120" }

\* the lines of the enumerated track sections
TrackLines ==
    { "  0 = N 1 2", "  0 = N 1", "  0 = N x 2", "  0 = N 1 x",
      "  0 = S 2 3", "  0 = S 2", "  0 = S x 3", "  0 = S 2 x",
      "  0 = E solo", "  0 = Q 1",
      "  " \o ToString(U32Max + 1) \o " = N 1 2" }

\* the lines of the enumerated [Events] sections
EventsLines ==
    { "  0 = E \"phrase_start\"", "  1 = E \"lyric la\"", "  1 = E \"solo on\"",
      "  1 = Q \"lyric la\"",
      "  " \o ToString(U32Max + 1) \o " = E \"phrase_end\"" }

\* the lines of the enumerated [Song] sections
SongLines == { "  Name = a", "  Name = b", "  Offset = 0" }

\* the lines of a section, each ended by a line break
RECURSIVE Lines(_)
Lines(lines) ==
    IF lines = <<>> THEN "" ELSE Head(lines) \o "\n" \o Lines(Tail(lines))

\* one section of a .chart file: the header, then its lines in braces
Block(header, lines) == "[" \o header \o "]\n{\n" \o Lines(lines) \o "}\n"

\* the sections of one line, and one without a header
OneLineBlocks ==
    {Block("SyncTrack", <<l>>) : l \in SyncTrackLines}
    \cup {Block("ExpertSingle", <<l>>) : l \in TrackLines}
    \cup {Block("Events", <<l>>) : l \in EventsLines}
    \cup {Block("Song", <<l>>) : l \in SongLines}
    \cup {Block("EasyDrums", <<"  0 = N 1 2">>)}
    \cup {"{\n  0 = N x\n}\n"}

----------------------------------------------------------------------------
(* The state machine *)

\* Either Chart::new is given a text whose [Events] block is `section`, or
\* LyricPhraseCollection::new is called on the events of one vocal track.
\* the web component's state where no web page runs
WebIdle ==
    /\ chart = None
    /\ readers = EmptyMap
    /\ queue = <<>>
    /\ picks = 0
    /\ loaded = FALSE
    /\ stored = None

Init ==
    /\ chart_file = ""
    /\ properties = EmptyMap
    /\ tempo_map = <<>>
    /\ key_presses = EmptyMap
    /\ error = None
    /\ phrases = NoCollection
    /\ encoded = None
    /\ out_file = None
    /\ WebIdle
    /\ \/ /\ \/ \E n \in 0..MaxTextLen : section \in [1..n -> MixedLines]
             \/ section \in {ScenarioSection, OversizedSection,
                             HiThereSection, EmptyLyricSection}
          /\ lyrics = <<>>
          /\ pc = "text"
       \/ /\ section = <<>>
          /\ \/ \E n \in 1..MaxMixedLen : lyrics \in [1..n -> MixedEvents]
             \/ \E n \in 1..MaxTrackLen : lyrics \in [1..n -> MainEvents]
             \/ \E n \in 1..MaxTrackLen : lyrics \in [1..n -> DuetEvents]
          /\ pc = "decoded"

Next == decode_lyrics \/ New

Spec == Init /\ [][Next]_vars

\* Chart::new on the enumerated .chart files
InitChart ==
    /\ \/ \E header \in {"SyncTrack"} : \E n \in 0..MaxSectionLines :
            \E lines \in [1..n -> SyncTrackLines] : chart_file = Block(header, lines)
       \/ \E header \in {"ExpertSingle"} : \E n \in 0..MaxSectionLines :
            \E lines \in [1..n -> TrackLines] : chart_file = Block(header, lines)
       \/ \E header \in {"Events"} : \E n \in 0..MaxSectionLines :
            \E lines \in [1..n -> EventsLines] : chart_file = Block(header, lines)
       \/ \E header \in {"Song"} : \E n \in 0..MaxSectionLines :
            \E lines \in [1..n -> SongLines] : chart_file = Block(header, lines)
       \/ \E first \in OneLineBlocks : \E second \in OneLineBlocks :
            chart_file = first \o second
    /\ section = <<>>
    /\ properties = EmptyMap
    /\ lyrics = <<>>
    /\ tempo_map = <<>>
    /\ key_presses = EmptyMap
    /\ error = None
    /\ phrases = NoCollection
    /\ encoded = None
    /\ out_file = None
    /\ WebIdle
    /\ pc = "file"

NextChart == ChartNew

SpecChart == InitChart /\ [][NextChart]_vars

----------------------------------------------------------------------------
(* phrases.rs: LyricPhraseCollection::encode *)

\* encode_single: the events it pushes onto result for one phrase
encode_single(phrase) ==
    <<PhraseStart(phrase.start_timestamp)>>
        \o [i \in 1..Len(phrase.lyrics) |->
                Lyric(phrase.lyrics[i].timestamp, phrase.lyrics[i].text)]
        \o <<PhraseEnd(phrase.end_timestamp)>>

\* Mutation of EncodeLoop: a duet phrase starting with the main phrase is
\* treated as one starting after it.
RECURSIVE EncodeLoop_NotBefore(_, _, _, _)
EncodeLoop_NotBefore(main, duet, i, result) ==
    IF i > Len(main) THEN Ok(result)
    ELSE IF Get(duet, 1) = None
    THEN EncodeLoop_NotBefore(main, duet, i + 1, result \o encode_single(main[i]))
    ELSE IF duet[1].start_timestamp >= main[i].start_timestamp
    THEN EncodeLoop_NotBefore(main, duet, i + 1, result \o encode_single(main[i]))
    ELSE Panic

\* the loop of encode from main phrase i on; `duet` is never shortened, so
\* duet.first() is the same phrase in every iteration; todo!() panics
RECURSIVE EncodeLoop(_, _, _, _)
EncodeLoop(main, duet, i, result) ==
    IF i > Len(main) THEN Ok(result)
    ELSE IF Get(duet, 1) = None
    THEN EncodeLoop(main, duet, i + 1, result \o encode_single(main[i]))
    ELSE IF duet[1].start_timestamp > main[i].start_timestamp
    THEN EncodeLoop(main, duet, i + 1, result \o encode_single(main[i]))
    ELSE Panic

\* LyricPhraseCollection::encode on the collection new returned
encode ==
    /\ pc = "segmented"
    /\ \E result \in {EncodeLoop(phrases.main_phrases, phrases.duet_phrases, 1, <<>>)} :
           IF result.kind = "Ok"
           THEN /\ pc' = "encoded"
                /\ encoded' = Some(result.value)
           ELSE /\ pc' = "panicked"
                /\ encoded' = encoded
    /\ UNCHANGED <<chart_file, section, properties, lyrics, tempo_map, key_presses,
                   error, phrases, out_file, web_vars>>

\* new, then encode, on event sequences of the main track and on sequences
\* mixing the events of both tracks
InitEncode ==
    /\ chart_file = ""
    /\ section = <<>>
    /\ properties = EmptyMap
    /\ tempo_map = <<>>
    /\ key_presses = EmptyMap
    /\ error = None
    /\ phrases = NoCollection
    /\ encoded = None
    /\ out_file = None
    /\ WebIdle
    /\ \/ \E n \in 0..MaxTrackLen : lyrics \in [1..n -> MainEvents]
       \/ \E n \in 1..MaxMixedLen : lyrics \in [1..n -> MainEvents \cup DuetEvents]
    /\ pc = "decoded"

NextEncode == New \/ encode

SpecEncode == InitEncode /\ [][NextEncode]_vars

----------------------------------------------------------------------------
(* lyric_charter_bin: main *)

\* [String]::join
RECURSIVE Join(_, _)
Join(strings, separator) ==
    IF Len(strings) = 0 THEN ""
    ELSE IF Len(strings) = 1 THEN strings[1]
    ELSE strings[1] \o separator \o Join(Tail(strings), separator)

\* .iter().map(ToString::to_string).collect::<Vec<String>>()
ToStrings(phrase_seq) == [i \in 1..Len(phrase_seq) |-> Display(phrase_seq[i])]

\* the bytes of the two out_file.write calls, one after the other
Written(collection) ==
    Join(ToStrings(collection.main_phrases), "\r\n")
        \o Join(ToStrings(collection.duet_phrases), "\r\n")

\* main on a source file that can be read and a destination that can be
\* created. The chart module the binary links is not among the sources; the
\* decoder of chart.rs stands for it. An Err or a panic ends main before
\* File::create, so the destination is left as it was.
main ==
    /\ pc = "file"
    /\ \E overflow_checks \in BOOLEAN :
        \E decoded \in {DecodeSections(Split(chart_file, "}"), 1, EmptyChart,
                                       overflow_checks)} :
            IF decoded.kind = "Ok"
            THEN /\ properties' = decoded.value.properties
                 /\ lyrics' = decoded.value.lyrics
                 /\ tempo_map' = decoded.value.tempo_map
                 /\ key_presses' = decoded.value.key_presses
                 /\ error' = error
                 /\ \E main_phrases \in {parse_phrases_from(decoded.value.lyrics)} :
                    \E duet_phrases \in {parse_phrases_from(DuetOnly(decoded.value.lyrics))} :
                        IF overflow_checks
                               /\ (AddOverflowed(main_phrases) \/ AddOverflowed(duet_phrases))
                        THEN /\ pc' = "panicked"
                             /\ UNCHANGED <<phrases, out_file>>
                        ELSE \E collection \in {[main_phrases |-> Wrapping(main_phrases),
                                                 duet_phrases |-> Wrapping(duet_phrases)]} :
                                 /\ pc' = "written"
                                 /\ phrases' = collection
                                 /\ out_file' = Some(Written(collection))
            ELSE /\ pc' = IF decoded.kind = "Err" THEN "error" ELSE "panicked"
                 /\ error' = IF decoded.kind = "Err" THEN Some(decoded.message) ELSE error
                 /\ UNCHANGED <<properties, lyrics, tempo_map, key_presses, phrases,
                                out_file>>
    /\ UNCHANGED <<chart_file, section, encoded, web_vars>>

\* the lines of the [Events] section of the enumerated source files
SourceLines ==
    { "  0 = E \"phrase_start\"", "  1 = E \"lyric la\"",
      "  0 = E \"duet_phrase_start\"", "  1 = E \"duet_lyric do\"",
      "  " \o ToString(U32Max) \o " = E \"phrase_start\"",
      "  " \o ToString(U32Max + 1) \o " = E \"phrase_end\"" }

\* the binary run on a source file of one [Events] section
InitCli ==
    /\ \E n \in 0..MaxMixedLen :
           \E lines \in [1..n -> SourceLines] : chart_file = Block("Events", lines)
    /\ section = <<>>
    /\ properties = EmptyMap
    /\ lyrics = <<>>
    /\ tempo_map = <<>>
    /\ key_presses = EmptyMap
    /\ error = None
    /\ phrases = NoCollection
    /\ encoded = None
    /\ out_file = None
    /\ WebIdle
    /\ pc = "file"

NextCli == main

SpecCli == InitCli /\ [][NextCli]_vars

----------------------------------------------------------------------------
(* lyric_charter_web: Msg, Main::create, Main::update *)
(* The chart module the viewer links is not among the sources; the decoder  *)
(* of chart.rs stands for it. A message sent with link.send_message is in   *)
(* `queue` until update is called with it; messages are delivered in the    *)
(* order they were sent.                                                    *)

\* enum Msg
MsgFiles(files) == [type |-> "Files", files |-> files]
MsgLoaded(file_name, data) == [type |-> "Loaded", file_name |-> file_name, data |-> data]
MsgParsed == [type |-> "Parsed"]

\* HashMap::remove
Remove(map, key) == [k \in DOMAIN map \ {key} |-> map[k]]

\* the files the user can pick, by name
FileNames == {"a.chart", "b.chart", "c.chart", "d.chart"}

\* the text of a file: a.chart has one phrase, b.chart a timestamp no u32
\* holds, c.chart a phrase that starts at u32::MAX, d.chart a time signature
\* whose denominator no u32 holds
FileText(file_name) ==
    CASE file_name = "a.chart" ->
            Block("Events", <<"  0 = E \"phrase_start\"", "  1 = E \"lyric la\"">>)
      [] file_name = "b.chart" ->
            Block("Events", <<"  " \o ToString(U32Max + 1) \o " = E \"phrase_end\"">>)
      [] file_name = "c.chart" ->
            Block("Events", <<"  " \o ToString(U32Max) \o " = E \"phrase_start\"">>)
      [] OTHER ->
            Block("SyncTrack", <<"  0 = TS 4 " \o ToString(TimestampBits)>>)

\* e.to_string() of a read that failed: a text without a section header
ReadError == "NotReadableError"

\* the collection LyricPhraseCollection::new returns for `events` when it
\* returns
NewReturns(events) ==
    [main_phrases |-> Wrapping(parse_phrases_from(events)),
     duet_phrases |-> Wrapping(parse_phrases_from(DuetOnly(events)))]

\* LyricPhraseCollection::new(events) panics
NewPanics(events, overflow_checks) ==
    overflow_checks
        /\ (AddOverflowed(parse_phrases_from(events))
                \/ AddOverflowed(parse_phrases_from(DuetOnly(events))))

\* Main::create
create ==
    /\ readers = EmptyMap
    /\ chart = None
    /\ error = None
    /\ phrases = NoCollection

\* the onchange callback of the file input: the input has no `multiple`
\* attribute, so helper returns no file, one file, or an Err
onchange ==
    /\ pc = "running"
    /\ picks < MaxPicks
    /\ picks' = picks + 1
    /\ \E files \in {Err("No file"), Ok(<<>>)} \cup {Ok(<<name>>) : name \in FileNames} :
           queue' = Append(queue, MsgFiles(files))
    /\ UNCHANGED <<chart_file, section, properties, lyrics, tempo_map, key_presses,
                   error, phrases, encoded, out_file, chart, readers, loaded, stored,
                   pc>>

\* the for loop of the Files arm: a reader is started for each file and
\* stored under the file's name, replacing (and so dropping) one stored there
RECURSIVE StartReaders(_, _)
StartReaders(map, files_vec) ==
    IF files_vec = <<>> THEN map
    ELSE StartReaders(Insert(map, Head(files_vec), "reading"), Tail(files_vec))

\* update, Msg::Files
Files ==
    /\ pc = "running"
    /\ queue # <<>>
    /\ Head(queue).type = "Files"
    /\ queue' = Tail(queue)
    /\ readers' = IF Head(queue).files.kind = "Ok"
                  THEN StartReaders(readers, Head(queue).files.value)
                  ELSE readers
    /\ UNCHANGED <<chart_file, section, properties, lyrics, tempo_map, key_presses,
                   error, phrases, encoded, out_file, chart, picks, loaded, stored,
                   pc>>

\* the closure given to read_as_text, called once when the read of a reader
\* that has not been dropped ends, with the text or with an error
read_as_text ==
    /\ pc = "running"
    /\ \E file_name \in DOMAIN readers :
           /\ readers[file_name] = "reading"
           /\ readers' = [readers EXCEPT ![file_name] = "done"]
           /\ \E res \in {Ok(FileText(file_name)), Err(ReadError)} :
                  queue' = Append(queue,
                               MsgLoaded(file_name,
                                         IF res.kind = "Ok" THEN res.value
                                         ELSE res.message))
    /\ UNCHANGED <<chart_file, section, properties, lyrics, tempo_map, key_presses,
                   error, phrases, encoded, out_file, chart, picks, loaded, stored,
                   pc>>

\* the texts a Loaded message can carry
LoadedTexts == {FileText(file_name) : file_name \in FileNames} \cup {ReadError}

\* Chart::new(&data) for each of them, in a build with and in a build without
\* overflow checks
ChartNewOf ==
    [data \in LoadedTexts |->
        [overflow_checks \in BOOLEAN |->
            DecodeSections(Split(data, "}"), 1, EmptyChart, overflow_checks)]]

\* Mutation of LoadedFields: the Err arm leaves the stored chart.
LoadedFields_KeepChart(result) ==
    IF result.kind = "Ok"
    THEN [chart |-> Some(result.value), error |-> None]
    ELSE [chart |-> chart, error |-> Some(result.message)]

\* the match on Chart::new(&data) of the Loaded arm: what it assigns
LoadedFields(result) ==
    IF result.kind = "Ok"
    THEN [chart |-> Some(result.value), error |-> None]
    ELSE [chart |-> None, error |-> Some(result.message)]

\* update, Msg::Loaded. A panic of Chart::new ends the program after
\* readers.remove; `loaded` and `stored` record the calls that returned.
Loaded ==
    /\ pc = "running"
    /\ queue # <<>>
    /\ Head(queue).type = "Loaded"
    /\ readers' = Remove(readers, Head(queue).file_name)
    /\ \E overflow_checks \in BOOLEAN :
        \E result \in {ChartNewOf[Head(queue).data][overflow_checks]} :
            IF result.kind = "Panic"
            THEN /\ pc' = "panicked"
                 /\ queue' = Tail(queue)
                 /\ UNCHANGED <<chart, error, loaded, stored>>
            ELSE /\ pc' = pc
                 /\ chart' = LoadedFields(result).chart
                 /\ error' = LoadedFields(result).error
                 /\ queue' = IF result.kind = "Ok"
                             THEN Append(Tail(queue), MsgParsed)
                             ELSE Tail(queue)
                 /\ loaded' = TRUE
                 /\ stored' = IF result.kind = "Ok" THEN Some(result.value) ELSE stored
    /\ UNCHANGED <<chart_file, section, properties, lyrics, tempo_map, key_presses,
                   phrases, encoded, out_file, picks>>

\* update, Msg::Parsed
Parsed ==
    /\ pc = "running"
    /\ queue # <<>>
    /\ Head(queue).type = "Parsed"
    /\ queue' = Tail(queue)
    /\ IF chart = None
       THEN UNCHANGED <<phrases, pc>>
       ELSE \E overflow_checks \in BOOLEAN :
                IF NewPanics(chart[1].lyrics, overflow_checks)
                THEN /\ pc' = "panicked"
                     /\ phrases' = phrases
                ELSE /\ pc' = pc
                     /\ phrases' = NewReturns(chart[1].lyrics)
    /\ UNCHANGED <<chart_file, section, properties, lyrics, tempo_map, key_presses,
                   error, encoded, out_file, chart, readers, picks, loaded, stored>>

\* the page after yew::start_app
InitWeb ==
    /\ chart_file = ""
    /\ section = <<>>
    /\ properties = EmptyMap
    /\ lyrics = <<>>
    /\ tempo_map = <<>>
    /\ key_presses = EmptyMap
    /\ encoded = None
    /\ out_file = None
    /\ create
    /\ queue = <<>>
    /\ picks = 0
    /\ loaded = FALSE
    /\ stored = None
    /\ pc = "running"

NextWeb == onchange \/ Files \/ read_as_text \/ Loaded \/ Parsed

SpecWeb == InitWeb /\ [][NextWeb]_vars

\* every message sent is delivered and every read that was not dropped ends;
\* the user need not pick a file
SpecWebFair ==
    /\ InitWeb
    /\ [][NextWeb]_vars
    /\ WF_vars(Files)
    /\ WF_vars(read_as_text)
    /\ WF_vars(Loaded)
    /\ WF_vars(Parsed)

----------------------------------------------------------------------------
(* Vocabulary of the properties *)

Returned == pc = "segmented"

CountKind(events, kind) == Len(SelectSeq(events, LAMBDA e : e.kind = kind))

IsDuetEvent(e) == e.kind \in {"DuetPhraseStart", "DuetPhraseEnd", "DuetLyric"}

\* the input without its duet events
WithoutDuet(events) == SelectSeq(events, LAMBDA e : ~IsDuetEvent(e))

\* the duet events of the input, in order, each as its plain counterpart
RECURSIVE DuetAsPlain(_)
DuetAsPlain(events) ==
    IF events = <<>> THEN <<>>
    ELSE LET e == Head(events)
             plain == CASE e.kind = "DuetPhraseStart" ->
                               <<[kind |-> "PhraseStart", timestamp |-> e.timestamp]>>
                        [] e.kind = "DuetPhraseEnd" ->
                               <<[kind |-> "PhraseEnd", timestamp |-> e.timestamp]>>
                        [] e.kind = "DuetLyric" ->
                               <<[kind |-> "Lyric", timestamp |-> e.timestamp,
                                  text |-> e.text]>>
                        [] OTHER -> <<>>
         IN  plain \o DuetAsPlain(Tail(events))

Tracks == {"main", "duet"}

\* the phrases new returned for a track, and the events the track is made of
TrackPhrases(track) ==
    IF track = "main" THEN phrases.main_phrases ELSE phrases.duet_phrases

TrackEvents(track) == IF track = "main" THEN lyrics ELSE DuetAsPlain(lyrics)

\* the result of segmenting `events` as one track, as a returning call stores it
Segmented(events) == Wrapping(parse_phrases_from(events))

----------------------------------------------------------------------------
(* Properties *)

\* C1: when new returns, main_phrases has as many phrases as the input has
\* PhraseStart events and duet_phrases as many as it has DuetPhraseStart events.
C1_PhraseCount ==
    Returned =>
        /\ Len(phrases.main_phrases) = CountKind(lyrics, "PhraseStart")
        /\ Len(phrases.duet_phrases) = CountKind(lyrics, "DuetPhraseStart")

C1_Witness ==
    /\ Returned
    /\ CountKind(lyrics, "PhraseStart") = 2
    /\ CountKind(lyrics, "DuetPhraseStart") = 1

C3_Scenario ==
    section = ScenarioSection =>
        /\ pc \notin {"error", "panicked"}
        /\ Returned =>
            /\ phrases.duet_phrases = <<>>
            /\ Len(phrases.main_phrases) = 2
            /\ phrases.main_phrases[1].start_timestamp = 10
            /\ phrases.main_phrases[1].end_timestamp = 16
            /\ CleanLine(Line(phrases.main_phrases[1].lyrics)) = "Hello"
            /\ Display(phrases.main_phrases[1]) = "from 10 to 16, phrase: Hello"
            /\ phrases.main_phrases[2].start_timestamp = 20
            /\ phrases.main_phrases[2].end_timestamp = 23
            /\ CleanLine(Line(phrases.main_phrases[2].lyrics)) = "World"
            /\ Display(phrases.main_phrases[2]) = "from 20 to 23, phrase: World"

C3_Witness == section = ScenarioSection /\ Returned

\* C4: every lyric of every returned phrase, of either track, has a timestamp
\* at or after the phrase's start and before its end.
C4_LyricsInsidePhrase ==
    Returned =>
        \A track \in Tracks :
            \A i \in 1..Len(TrackPhrases(track)) :
                LET phrase == TrackPhrases(track)[i]
                IN  \A j \in 1..Len(phrase.lyrics) :
                        /\ phrase.start_timestamp <= phrase.lyrics[j].timestamp
                        /\ phrase.lyrics[j].timestamp < phrase.end_timestamp

\* C5: in each track, a phrase ends at or before the start of the phrase
\* that follows it.
C5_EndBeforeNextStart ==
    Returned =>
        \A track \in Tracks :
            \A i \in 1..(Len(TrackPhrases(track)) - 1) :
                TrackPhrases(track)[i].end_timestamp
                    <= TrackPhrases(track)[i + 1].start_timestamp

C5_Witness ==
    /\ Returned
    /\ \E track \in Tracks :
        /\ Len(TrackPhrases(track)) = 3
        /\ TrackPhrases(track)[1].start_timestamp > TrackPhrases(track)[2].start_timestamp
        /\ TrackPhrases(track)[2].end_timestamp < TrackPhrases(track)[3].start_timestamp
        /\ CountKind(TrackEvents(track), "PhraseEnd") > 0

\* C6: in each track, no Lyric event of the input is in the lyrics of two
\* different phrases.  (A phrase takes every input lyric of a given timestamp
\* or none, so an event is in two phrases exactly when its value is.)
C6_NoLyricInTwoPhrases ==
    Returned =>
        \A track \in Tracks :
            \A i, j \in 1..Len(TrackPhrases(track)) :
                i # j =>
                    \A k \in 1..Len(TrackPhrases(track)[i].lyrics) :
                        \A l \in 1..Len(TrackPhrases(track)[j].lyrics) :
                            TrackPhrases(track)[i].lyrics[k]
                                # TrackPhrases(track)[j].lyrics[l]

\* C7: main_phrases is what segmenting the input without its duet events
\* gives, so two inputs that differ only in duet events have equal main
\* phrases; and every text of a main phrase is the text of a Lyric event.
C7_MainIgnoresDuet ==
    Returned =>
        /\ phrases.main_phrases = Segmented(WithoutDuet(lyrics))
        /\ \A i \in 1..Len(phrases.main_phrases) :
            \A j \in 1..Len(phrases.main_phrases[i].lyrics) :
                \E k \in 1..Len(lyrics) :
                    /\ lyrics[k].kind = "Lyric"
                    /\ lyrics[k].text = phrases.main_phrases[i].lyrics[j].text
                    /\ lyrics[k].timestamp = phrases.main_phrases[i].lyrics[j].timestamp

\* a main phrase, and a DuetLyric and a DuetPhraseEnd that fall in its window
C7_Witness ==
    /\ Returned
    /\ Len(phrases.main_phrases) = 1
    /\ \E k, l \in 1..Len(lyrics) :
        /\ lyrics[k].kind = "DuetLyric"
        /\ lyrics[k].timestamp >= phrases.main_phrases[1].start_timestamp
        /\ lyrics[l].kind = "DuetPhraseEnd"
        /\ lyrics[l].timestamp > phrases.main_phrases[1].start_timestamp

\* C8: duet_phrases is what segmenting the duet events of the input, each
\* remapped to its plain counterpart and all other events dropped, gives; so
\* two inputs with the same duet events in the same order have equal duet
\* phrases.
C8_DuetIgnoresMain ==
    Returned => phrases.duet_phrases = Segmented(DuetAsPlain(lyrics))

\* a duet phrase, and a plain Lyric and a plain PhraseEnd that fall in its window
C8_Witness ==
    /\ Returned
    /\ Len(phrases.duet_phrases) = 1
    /\ \E k, l \in 1..Len(lyrics) :
        /\ lyrics[k].kind = "Lyric"
        /\ lyrics[k].timestamp >= phrases.duet_phrases[1].start_timestamp
        /\ lyrics[l].kind = "PhraseEnd"
        /\ lyrics[l].timestamp > phrases.duet_phrases[1].start_timestamp

\* C9: new never panics, whatever the timestamps of its input.
C9_NewNeverPanics == pc # "panicked"

\* the positions of the PhraseEnd events that qualify as the end of phrase i
\* of a track under rule (a)
QualifyingEnds(track, i) ==
    LET events == TrackEvents(track)
        low == TrackPhrases(track)[i].start_timestamp
    IN  {k \in 1..Len(events) :
            /\ events[k].kind = "PhraseEnd"
            /\ events[k].timestamp > low
            /\ i < Len(TrackPhrases(track)) =>
                    events[k].timestamp <= TrackPhrases(track)[i + 1].start_timestamp}

Min(S) == CHOOSE x \in S : \A y \in S : x <= y

\* C10: a phrase that has a qualifying PhraseEnd under rule (a) ends at the
\* timestamp of the first qualifying PhraseEnd in input order.
C10_FirstQualifyingEnd ==
    Returned =>
        \A track \in Tracks :
            \A i \in 1..Len(TrackPhrases(track)) :
                QualifyingEnds(track, i) # {} =>
                    TrackPhrases(track)[i].end_timestamp
                        = TrackEvents(track)[Min(QualifyingEnds(track, i))].timestamp

\* two PhraseEnd events qualify and the first in input order is the later in time
C10_Witness ==
    /\ Returned
    /\ \E track \in Tracks :
        \E i \in 1..Len(TrackPhrases(track)) :
            \E k, l \in QualifyingEnds(track, i) :
                /\ k < l
                /\ TrackEvents(track)[k].timestamp > TrackEvents(track)[l].timestamp
                /\ i < Len(TrackPhrases(track))

\* C11: a phrase without a qualifying PhraseEnd ends at the start of the next
\* phrase when there is one, else one past its last lyric when it has lyrics,
\* else one past its own start.
C11_EndFallbacks ==
    Returned =>
        \A track \in Tracks :
            \A i \in 1..Len(TrackPhrases(track)) :
                LET phrase == TrackPhrases(track)[i]
                IN  QualifyingEnds(track, i) = {} =>
                        phrase.end_timestamp =
                            IF i < Len(TrackPhrases(track))
                            THEN TrackPhrases(track)[i + 1].start_timestamp
                            ELSE IF Len(phrase.lyrics) > 0
                            THEN phrase.lyrics[Len(phrase.lyrics)].timestamp + 1
                            ELSE phrase.start_timestamp + 1

\* the Lyric events of a track that fall in the window of its phrase i
LyricsInWindow(track, i) ==
    LET low == TrackPhrases(track)[i].start_timestamp
        taken == SelectSeq(TrackEvents(track),
                     LAMBDA e :
                        /\ e.kind = "Lyric"
                        /\ e.timestamp >= low
                        /\ i < Len(TrackPhrases(track)) =>
                                e.timestamp < TrackPhrases(track)[i + 1].start_timestamp)
    IN  [j \in 1..Len(taken) |-> [timestamp |-> taken[j].timestamp, text |-> taken[j].text]]

\* C12: the lyrics of phrase i are exactly the Lyric events of the track, in
\* input order, with timestamp at or after the phrase start and, when a phrase
\* follows, before the start of that phrase; no other kind of event gives a lyric.
C12_LyricsAreTheWindow ==
    Returned =>
        \A track \in Tracks :
            \A i \in 1..Len(TrackPhrases(track)) :
                TrackPhrases(track)[i].lyrics = LyricsInWindow(track, i)

\* a lyric at the start of the phrase is taken, a lyric at the start of the
\* next phrase is left out, and a PhraseEnd sits in the window
C12_Witness ==
    /\ Returned
    /\ \E track \in Tracks :
        /\ Len(TrackPhrases(track)) = 2
        /\ Len(TrackPhrases(track)[1].lyrics) = 1
        /\ TrackPhrases(track)[1].lyrics[1].timestamp
                = TrackPhrases(track)[1].start_timestamp
        /\ \E k \in 1..Len(TrackEvents(track)) :
            /\ TrackEvents(track)[k].kind = "Lyric"
            /\ TrackEvents(track)[k].timestamp = TrackPhrases(track)[2].start_timestamp
        /\ TrackPhrases(track)[1].start_timestamp < TrackPhrases(track)[2].start_timestamp

\* the timestamps of the events of one kind, in input order
RECURSIVE TimestampsOfKind(_, _)
TimestampsOfKind(events, kind) ==
    IF events = <<>> THEN <<>>
    ELSE (IF Head(events).kind = kind THEN <<Head(events).timestamp>> ELSE <<>>)
         \o TimestampsOfKind(Tail(events), kind)

StartTimestamps(phrase_seq) ==
    [i \in 1..Len(phrase_seq) |-> phrase_seq[i].start_timestamp]

\* C13: the start timestamps of main_phrases are the PhraseStart timestamps in
\* the order of the input, not sorted; likewise duet_phrases and DuetPhraseStart.
C13_StartsInInputOrder ==
    Returned =>
        /\ StartTimestamps(phrases.main_phrases) = TimestampsOfKind(lyrics, "PhraseStart")
        /\ StartTimestamps(phrases.duet_phrases)
                = TimestampsOfKind(lyrics, "DuetPhraseStart")

\* three main phrases whose starts are not in ascending order
C13_Witness ==
    /\ Returned
    /\ Len(phrases.main_phrases) = 3
    /\ phrases.main_phrases[1].start_timestamp > phrases.main_phrases[2].start_timestamp
    /\ phrases.main_phrases[2].start_timestamp < phrases.main_phrases[3].start_timestamp

\* a syllable without its final hyphen
Unhyphened(text) ==
    IF Len(text) > 0 /\ SubSeq(text, Len(text), Len(text)) = "-"
    THEN SubSeq(text, 1, Len(text) - 1)
    ELSE text

\* the texts joined by one space, no space after a syllable ending in a hyphen
RECURSIVE Joined(_)
Joined(phrase_lyrics) ==
    IF Len(phrase_lyrics) = 0 THEN ""
    ELSE IF Len(phrase_lyrics) = 1 THEN Unhyphened(phrase_lyrics[1].text)
    ELSE Unhyphened(phrase_lyrics[1].text)
         \o (IF Unhyphened(phrase_lyrics[1].text) = phrase_lyrics[1].text THEN " " ELSE "")
         \o Joined(Tail(phrase_lyrics))

\* the line a phrase renders to: what Display writes after "phrase: "
RenderedLine(phrase) ==
    SubSeq(Display(phrase),
           Len("from " \o ToString(phrase.start_timestamp) \o " to "
                \o ToString(phrase.end_timestamp) \o ", phrase: ") + 1,
           Len(Display(phrase)))

\* C14: the rendered line of a phrase is its texts joined by single spaces,
\* with no space after a syllable ending in a hyphen, and it has no trailing
\* space; ["Hel-", "lo"] renders to "Hello" and ["Hi", "there"] to "Hi there".
C14_Rendering ==
    Returned =>
        /\ \A track \in Tracks :
            \A i \in 1..Len(TrackPhrases(track)) :
                LET line == RenderedLine(TrackPhrases(track)[i])
                IN  /\ line = Joined(TrackPhrases(track)[i].lyrics)
                    /\ Len(line) > 0 => SubSeq(line, Len(line), Len(line)) # " "
        /\ section = ScenarioSection =>
                RenderedLine(phrases.main_phrases[1]) = "Hello"
        /\ section = HiThereSection =>
                RenderedLine(phrases.main_phrases[1]) = "Hi there"

----------------------------------------------------------------------------
(* Properties of Chart::new, under SpecChart *)

\* Chart::new has returned or panicked
Called == pc # "file"

\* s has `sub` somewhere
Contains(s, sub) == \E i \in 1..Len(s) : StartsWith(s, i, sub)

\* no field of a Chart was produced
NoChart ==
    /\ properties = EmptyMap
    /\ lyrics = <<>>
    /\ tempo_map = <<>>
    /\ key_presses = EmptyMap

\* C15: a [SyncTrack] section with the line `  0 = TS` (a TS code and nothing
\* after it) makes Chart::new return an error, and no tempo map is produced.
C15_MissingNumeratorIsError ==
    (Called /\ Contains(chart_file, "[SyncTrack]") /\ Contains(chart_file, "  0 = TS\n"))
        => (pc = "error" /\ tempo_map = <<>>)

\* a line with a code none of the decoders knows, in a section of each kind,
\* and the event the line is to decode to
UnknownCodeLines ==
    { [header |-> "SyncTrack", line |-> "  0 = X 7",
       event |-> [kind |-> "OtherTempoEvent", code |-> "X", timestamp |-> 0,
                  content |-> "7"]],
      [header |-> "Events", line |-> "  1 = E \"solo on\"",
       event |-> [kind |-> "OtherLyricEvent", code |-> "E", timestamp |-> 1,
                  content |-> "solo on"]],
      [header |-> "Events", line |-> "  1 = Q \"lyric la\"",
       event |-> [kind |-> "OtherLyricEvent", code |-> "Q", timestamp |-> 1,
                  content |-> "lyric la"]],
      [header |-> "ExpertSingle", line |-> "  0 = Q 1",
       event |-> [kind |-> "OtherKeyPress", code |-> "Q", timestamp |-> 0,
                  content |-> "1"]] }

\* the events Chart::new stored for the sections with this header
StoredUnder(header) ==
    IF header = "SyncTrack" THEN tempo_map
    ELSE IF header = "Events" THEN lyrics
    ELSE IF header \in DOMAIN key_presses THEN key_presses[header]
    ELSE <<>>

\* C16: a line with an unknown code is no decode error. A file of one or two
\* sections whose lines all carry unknown codes decodes (Chart::new returns
\* Ok), and each line is stored as the Other* event with its code and its
\* content, the quotes of an [Events] line removed.
C16_UnknownCodesPreserved ==
    Called =>
        /\ \A u \in UnknownCodeLines :
            /\ chart_file = Block(u.header, <<u.line>>)
                    => (pc = "decoded" /\ StoredUnder(u.header) = <<u.event>>)
            /\ chart_file = Block(u.header, <<u.line, u.line>>)
                    => (pc = "decoded" /\ StoredUnder(u.header) = <<u.event, u.event>>)
        /\ \A u, v \in UnknownCodeLines :
            (u.header # v.header
                /\ chart_file = Block(u.header, <<u.line>>) \o Block(v.header, <<v.line>>))
                    => /\ pc = "decoded"
                       /\ StoredUnder(u.header) = <<u.event>>
                       /\ StoredUnder(v.header) = <<v.event>>

\* an unknown tempo code and an unknown track code, decoded from one file
C16_Witness ==
    /\ pc = "decoded"
    /\ chart_file = Block("SyncTrack", <<"  0 = X 7">>)
                        \o Block("ExpertSingle", <<"  0 = Q 1">>)
    /\ tempo_map[1].code = "X"
    /\ key_presses["ExpertSingle"][1].kind = "OtherKeyPress"

\* a line of each kind of section with one numeric field that is no integer
\* of its type, and that field
BadNumberLines ==
    { [header |-> "SyncTrack", line |-> "  " \o ToString(U32Max + 1) \o " = B 120",
       field |-> ToString(U32Max + 1)],
      [header |-> "SyncTrack", line |-> "  0 = A x", field |-> "x"],
      [header |-> "SyncTrack", line |-> "  0 = B x", field |-> "x"],
      [header |-> "SyncTrack", line |-> "  0 = TS x", field |-> "x"],
      [header |-> "SyncTrack", line |-> "  0 = TS 4 x", field |-> "x"],
      [header |-> "Events",
       line |-> "  " \o ToString(U32Max + 1) \o " = E \"phrase_end\"",
       field |-> ToString(U32Max + 1)],
      [header |-> "ExpertSingle", line |-> "  " \o ToString(U32Max + 1) \o " = N 1 2",
       field |-> ToString(U32Max + 1)],
      [header |-> "ExpertSingle", line |-> "  0 = N x 2", field |-> "x"],
      [header |-> "ExpertSingle", line |-> "  0 = N 1 x", field |-> "x"],
      [header |-> "ExpertSingle", line |-> "  0 = S x 3", field |-> "x"],
      [header |-> "ExpertSingle", line |-> "  0 = S 2 x", field |-> "x"] }

\* C17: a matched line with a numeric field that does not parse (timestamp,
\* anchor microseconds, milli-bpm, TS numerator, TS denominator exponent, note
\* key, special type, duration) makes Chart::new return an error whose message
\* carries that field.
C17_BadNumberIsError ==
    Called =>
        \A b \in BadNumberLines :
            chart_file = Block(b.header, <<b.line>>)
                => /\ pc = "error"
                   /\ error # None
                   /\ Contains(error[1], b.field)

\* C17 without the TS denominator exponent: every other numeric field that
\* does not parse is reported with its text
C17_BadNumberButExponent ==
    Called =>
        \A b \in BadNumberLines :
            (b.line # "  0 = TS 4 x" /\ chart_file = Block(b.header, <<b.line>>))
                => /\ pc = "error"
                   /\ error = Some("\"" \o b.field \o "\"")

\* the lines of a track section that decode, for use before a failing line
GoodTrackLines == {"  0 = N 1 2", "  0 = S 2 3", "  0 = E solo", "  0 = Q 1"}

\* C18: in a track section an N or S line without a second field makes
\* Chart::new return the error "No duration found", also after lines that
\* decode; and an N or S line with both fields decodes to Note{key, duration}
\* or Special{special_type, duration}.
C18_DurationRequired ==
    Called =>
        /\ \A line \in {"  0 = N 1", "  0 = S 2"} :
            /\ chart_file = Block("ExpertSingle", <<line>>)
                    => (pc = "error" /\ error = Some("No duration found"))
            /\ \A good \in GoodTrackLines :
                chart_file = Block("ExpertSingle", <<good, line>>)
                    => (pc = "error" /\ error = Some("No duration found"))
        /\ chart_file = Block("ExpertSingle", <<"  0 = N 1 2">>)
                => /\ pc = "decoded"
                   /\ key_presses["ExpertSingle"]
                        = << [kind |-> "Note", timestamp |-> 0, key |-> 1,
                              duration |-> 2] >>
        /\ chart_file = Block("ExpertSingle", <<"  0 = S 2 3">>)
                => /\ pc = "decoded"
                   /\ key_presses["ExpertSingle"]
                        = << [kind |-> "Special", timestamp |-> 0, special_type |-> 2,
                              duration |-> 3] >>

\* a note decoded, then a special without a duration: the error
C18_Witness ==
    /\ pc = "error"
    /\ chart_file = Block("ExpertSingle", <<"  0 = N 1 2", "  0 = S 2">>)
    /\ error = Some("No duration found")

\* the lines of the enumerated files that are field errors in their section
FieldErrorLines ==
    { "  0 = TS x", "  0 = B x", "  0 = A x",
      "  0 = N 1", "  0 = N x 2", "  0 = N 1 x",
      "  0 = S 2", "  0 = S x 3", "  0 = S 2 x",
      "  " \o ToString(U32Max + 1) \o " = B 120",
      "  " \o ToString(U32Max + 1) \o " = N 1 2",
      "  " \o ToString(U32Max + 1) \o " = E \"phrase_end\"" }

\* some line of the file is a field error
HasFieldError == \E line \in FieldErrorLines : Contains(chart_file, line \o "\n")

\* C19: decoding is fail-fast and all-or-nothing. Whenever Chart::new returns
\* on a file with a line that is a field error, in whichever section and
\* whatever decoded before or after it, it returns Err; and with an Err no
\* field of a Chart is produced.
C19_FailFast ==
    /\ (pc \in {"decoded", "error"} /\ HasFieldError) => pc = "error"
    /\ pc = "error" => (error # None /\ NoChart)
    /\ pc = "decoded" => error = None

\* a [Song] section decoded, and the track section after it failed
C19_Witness ==
    /\ pc = "error"
    /\ chart_file = Block("Song", <<"  Name = a">>)
                        \o Block("ExpertSingle", <<"  0 = N 1">>)
    /\ NoChart

\* C20: a TS line with numerator 4 and second field n decodes to the time
\* signature (4, 2^n), for every n the line can carry; without a second field
\* to (4, 4); and Chart::new does not panic on such a line.
C20_TimeSignaturePower ==
    Called =>
        /\ \A n \in {3, TimestampBits} :
            chart_file = Block("SyncTrack", <<"  0 = TS 4 " \o ToString(n)>>)
                => /\ pc = "decoded"
                   /\ tempo_map = << [kind |-> "TimeSignature", timestamp |-> 0,
                                      time_signature |-> <<4, 2^n>>] >>
        /\ chart_file = Block("SyncTrack", <<"  0 = TS 4">>)
                => /\ pc = "decoded"
                   /\ tempo_map = << [kind |-> "TimeSignature", timestamp |-> 0,
                                      time_signature |-> <<4, 4>>] >>

\* C20 for the exponents below the width of a u32
C20_SmallExponents ==
    Called =>
        /\ chart_file = Block("SyncTrack", <<"  0 = TS 4 3">>)
                => (pc = "decoded" /\ tempo_map[1].time_signature = <<4, 8>>)
        /\ chart_file = Block("SyncTrack", <<"  0 = TS 4">>)
                => (pc = "decoded" /\ tempo_map[1].time_signature = <<4, 4>>)

\* the property lines of the enumerated files, with the key and the value
\* each is to give
PropertyLines ==
    { [line |-> "  Name = a", key |-> "Name", value |-> "a"],
      [line |-> "  Name = b", key |-> "Name", value |-> "b"],
      [line |-> "  Offset = 0", key |-> "Offset", value |-> "0"] }

\* the map of a sequence of property lines: each key with the value of its
\* last line
LastWins(property_lines) ==
    [k \in {property_lines[i].key : i \in 1..Len(property_lines)} |->
        property_lines[CHOOSE i \in 1..Len(property_lines) :
                            /\ property_lines[i].key = k
                            /\ \A j \in (i + 1)..Len(property_lines) :
                                    property_lines[j].key # k].value]

LinesOf(property_lines) == [i \in 1..Len(property_lines) |-> property_lines[i].line]

\* C21: every property line of a [Song] section gives an entry key -> value,
\* and a key that occurs more than once, in one [Song] section or in two, is
\* mapped to the value of its last occurrence in the file.
C21_LastPropertyWins ==
    Called =>
        /\ \A n \in 0..MaxSectionLines : \A ls \in [1..n -> PropertyLines] :
            chart_file = Block("Song", LinesOf(ls))
                => (pc = "decoded" /\ properties = LastWins(ls))
        /\ \A first \in PropertyLines : \A second \in PropertyLines :
            chart_file = Block("Song", <<first.line>>) \o Block("Song", <<second.line>>)
                => (pc = "decoded" /\ properties = LastWins(<<first, second>>))

\* one key twice in a section: the second value is stored
C21_Witness ==
    /\ pc = "decoded"
    /\ chart_file = Block("Song", <<"  Name = a", "  Name = b">>)
    /\ properties["Name"] = "b"

\* a section without a header whose line would be an error in a track section
Headerless == "{\n  0 = N x\n}\n"

\* a section of each kind with one line, and the Chart it alone gives
Dispatched ==
    { [block |-> Block("Song", <<"  Name = a">>),
       chart |-> [properties |-> [k \in {"Name"} |-> "a"], lyrics |-> <<>>,
                  tempo_map |-> <<>>, key_presses |-> <<>>]],
      [block |-> Block("SyncTrack", <<"  0 = B 120">>),
       chart |-> [properties |-> <<>>, lyrics |-> <<>>,
                  tempo_map |-> << [kind |-> "Beat", timestamp |-> 0,
                                    milli_bpm |-> 120] >>,
                  key_presses |-> <<>>]],
      [block |-> Block("Events", <<"  0 = E \"phrase_start\"">>),
       chart |-> [properties |-> <<>>,
                  lyrics |-> << [kind |-> "PhraseStart", timestamp |-> 0] >>,
                  tempo_map |-> <<>>, key_presses |-> <<>>]],
      [block |-> Block("ExpertSingle", <<"  0 = E solo">>),
       chart |-> [properties |-> <<>>, lyrics |-> <<>>, tempo_map |-> <<>>,
                  key_presses |-> [k \in {"ExpertSingle"} |->
                        << [kind |-> "TextEvent", timestamp |-> 0,
                            content |-> "solo"] >>]]],
      [block |-> Block("EasyDrums", <<"  0 = N 1 2">>),
       chart |-> [properties |-> <<>>, lyrics |-> <<>>, tempo_map |-> <<>>,
                  key_presses |-> [k \in {"EasyDrums"} |->
                        << [kind |-> "Note", timestamp |-> 0, duration |-> 2,
                            key |-> 1] >>]]] }

\* the Chart that Chart::new returned
ReturnedChart ==
    [properties |-> properties, lyrics |-> lyrics, tempo_map |-> tempo_map,
     key_presses |-> key_presses]

\* C22: a block without a bracketed header gives nothing and no error, before
\* or after a block with a header; a block with a header goes by its name:
\* Song to properties, SyncTrack to tempo_map, Events to lyrics, any other
\* name to key_presses under that name without the brackets.
C22_DispatchByHeader ==
    Called =>
        /\ chart_file = Headerless \o Headerless => (pc = "decoded" /\ NoChart)
        /\ \A d \in Dispatched :
            chart_file \in {d.block, Headerless \o d.block, d.block \o Headerless}
                => (pc = "decoded" /\ ReturnedChart = d.chart)

\* a track section decoded after a block without a header
C22_Witness ==
    /\ pc = "decoded"
    /\ chart_file = Headerless \o Block("EasyDrums", <<"  0 = N 1 2">>)
    /\ DOMAIN key_presses = {"EasyDrums"}

\* lines that decode in a section of their kind, and the event of each
DecodingLines ==
    { [header |-> "ExpertSingle", line |-> "  0 = N 1 2",
       event |-> [kind |-> "Note", timestamp |-> 0, duration |-> 2, key |-> 1]],
      [header |-> "ExpertSingle", line |-> "  0 = S 2 3",
       event |-> [kind |-> "Special", timestamp |-> 0, special_type |-> 2,
                  duration |-> 3]],
      [header |-> "ExpertSingle", line |-> "  0 = E solo",
       event |-> [kind |-> "TextEvent", timestamp |-> 0, content |-> "solo"]],
      [header |-> "Events", line |-> "  0 = E \"phrase_start\"",
       event |-> [kind |-> "PhraseStart", timestamp |-> 0]],
      [header |-> "Events", line |-> "  1 = E \"lyric la\"",
       event |-> [kind |-> "Lyric", timestamp |-> 1, text |-> "la"]],
      [header |-> "SyncTrack", line |-> "  0 = B 120",
       event |-> [kind |-> "Beat", timestamp |-> 0, milli_bpm |-> 120]],
      [header |-> "SyncTrack", line |-> "  0 = A 100",
       event |-> [kind |-> "Anchor", timestamp |-> 0, song_microseconds |-> 100]],
      [header |-> "SyncTrack", line |-> "  0 = TS 4 3",
       event |-> [kind |-> "TimeSignature", timestamp |-> 0,
                  time_signature |-> <<4, 8>>]] }

\* C27: of two sections with the same track header only the events of the
\* last are in key_presses under that name, while the lyric events of two
\* [Events] sections and the tempo events of two [SyncTrack] sections are
\* both kept, in file order.
C27_TracksOverwriteOthersAccumulate ==
    Called =>
        \A first \in DecodingLines : \A second \in DecodingLines :
            (first.header = second.header
                /\ chart_file = Block(first.header, <<first.line>>)
                                    \o Block(second.header, <<second.line>>))
                => /\ pc = "decoded"
                   /\ StoredUnder(first.header) =
                        IF first.header \in {"Events", "SyncTrack"}
                        THEN <<first.event, second.event>>
                        ELSE <<second.event>>

\* two sections [ExpertSingle]: the note of the first is gone
C27_Witness ==
    /\ pc = "decoded"
    /\ chart_file = Block("ExpertSingle", <<"  0 = N 1 2">>)
                        \o Block("ExpertSingle", <<"  0 = S 2 3">>)
    /\ Len(key_presses["ExpertSingle"]) = 1
    /\ key_presses["ExpertSingle"][1].kind = "Special"

----------------------------------------------------------------------------
(* Properties of the segmenter, continued (under Spec) *)

\* the start timestamps of the phrases of a track strictly increase and are
\* below u32::MAX
StrictlyIncreasingStarts(track) ==
    /\ \A i \in 1..Len(TrackPhrases(track)) :
            TrackPhrases(track)[i].start_timestamp < U32Max
    /\ \A i \in 1..(Len(TrackPhrases(track)) - 1) :
            TrackPhrases(track)[i].start_timestamp
                < TrackPhrases(track)[i + 1].start_timestamp

\* C28: in a track whose PhraseStart timestamps strictly increase in input
\* order and are below u32::MAX, every phrase ends after it starts.
C28_EndAfterStart ==
    Returned =>
        \A track \in Tracks :
            StrictlyIncreasingStarts(track) =>
                \A i \in 1..Len(TrackPhrases(track)) :
                    TrackPhrases(track)[i].end_timestamp
                        > TrackPhrases(track)[i].start_timestamp

\* C28 for the tracks whose lyrics too are below u32::MAX
C28_EndAfterStartBelowMax ==
    Returned =>
        \A track \in Tracks :
            (/\ StrictlyIncreasingStarts(track)
             /\ \A k \in 1..Len(TrackEvents(track)) :
                    TrackEvents(track)[k].timestamp < U32Max) =>
                \A i \in 1..Len(TrackPhrases(track)) :
                    TrackPhrases(track)[i].end_timestamp
                        > TrackPhrases(track)[i].start_timestamp

----------------------------------------------------------------------------
(* Properties of encode (under SpecEncode) *)

\* encode returned
Encoded == pc = "encoded"

\* encode panicked: new had returned a collection, and the call did not return
EncodePanicked == pc = "panicked" /\ phrases # NoCollection

\* duet_phrases is empty or its first phrase starts after every main phrase
DuetStartsAfterMain(collection) ==
    \/ collection.duet_phrases = <<>>
    \/ \A i \in 1..Len(collection.main_phrases) :
           collection.duet_phrases[1].start_timestamp
               > collection.main_phrases[i].start_timestamp

\* the number of events that stand for the phrases before phrase i
RECURSIVE EventsBefore(_, _)
EventsBefore(phrase_seq, i) ==
    IF i <= 1 THEN 0
    ELSE EventsBefore(phrase_seq, i - 1) + Len(phrase_seq[i - 1].lyrics) + 2

\* `events` is, for each phrase in order, its PhraseStart, one Lyric per
\* phrase lyric in order, and its PhraseEnd
StandsFor(events, phrase_seq) ==
    /\ Len(events) = EventsBefore(phrase_seq, Len(phrase_seq) + 1)
    /\ \A i \in 1..Len(phrase_seq) :
           LET at == EventsBefore(phrase_seq, i)
               count == Len(phrase_seq[i].lyrics)
           IN  /\ events[at + 1] = PhraseStart(phrase_seq[i].start_timestamp)
               /\ \A k \in 1..count :
                      events[at + 1 + k] = Lyric(phrase_seq[i].lyrics[k].timestamp,
                                                 phrase_seq[i].lyrics[k].text)
               /\ events[at + count + 2] = PhraseEnd(phrase_seq[i].end_timestamp)

\* C29: encode returns exactly when duet_phrases is empty or its first phrase
\* starts strictly after every main phrase, and panics otherwise; what it
\* returns is, for each main phrase in order, PhraseStart, the phrase's lyrics
\* as Lyric events, PhraseEnd, and holds no duet event.
C29_EncodeReturnsMainOnly ==
    /\ Encoded =>
           /\ DuetStartsAfterMain(phrases)
           /\ StandsFor(encoded[1], phrases.main_phrases)
           /\ \A i \in 1..Len(encoded[1]) : ~IsDuetEvent(encoded[1][i])
    /\ EncodePanicked => ~DuetStartsAfterMain(phrases)

\* encode returned for a collection with duet phrases and a main phrase with
\* a lyric
C29_Witness ==
    /\ Encoded
    /\ phrases.duet_phrases # <<>>
    /\ \E i \in 1..Len(phrases.main_phrases) : phrases.main_phrases[i].lyrics # <<>>

\* encode panicked on the second main phrase after encoding the first
C29_WitnessPanic ==
    /\ EncodePanicked
    /\ Len(phrases.main_phrases) = 2
    /\ phrases.duet_phrases[1].start_timestamp > phrases.main_phrases[1].start_timestamp

\* C30: for a collection new returned from an input without duet events,
\* segmenting what encode returns gives phrases equal to the collection's
\* main_phrases.
C30_RoundTrip ==
    (Encoded /\ WithoutDuet(lyrics) = lyrics) =>
        Segmented(encoded[1]) = phrases.main_phrases

\* the round trip for inputs whose PhraseStart timestamps strictly increase
C30_RoundTripAscending ==
    (Encoded /\ WithoutDuet(lyrics) = lyrics /\ StrictlyIncreasingStarts("main")) =>
        Segmented(encoded[1]) = phrases.main_phrases

----------------------------------------------------------------------------
(* Properties of the binary (under SpecCli) *)

\* main wrote the destination file
WroteFile == pc = "written"

\* C23: the destination holds the rendering of every main phrase, then of
\* every duet phrase, each two neighbours separated by a line break, also the
\* last main phrase and the first duet phrase.
C23_EveryPhraseOnItsOwnLine ==
    WroteFile =>
        out_file = Some(Join(ToStrings(phrases.main_phrases)
                                 \o ToStrings(phrases.duet_phrases), "\r\n"))

\* the same when one of the two tracks has no phrase
C23_OneTrackOnItsOwnLines ==
    (WroteFile /\ (phrases.main_phrases = <<>> \/ phrases.duet_phrases = <<>>)) =>
        out_file = Some(Join(ToStrings(phrases.main_phrases)
                                 \o ToStrings(phrases.duet_phrases), "\r\n"))

----------------------------------------------------------------------------
(* Properties of the viewer (under SpecWeb and SpecWebFair) *)

\* the page runs: no call of update has panicked
Running == pc = "running"

\* C24: whenever phrases is Some, chart is Some and phrases is the
\* segmentation of the lyrics of the stored chart; no phrases of an earlier
\* file are stored after a later file failed to decode.
C24_PhrasesOfStoredChart ==
    Running =>
        (phrases # NoCollection =>
            /\ chart # None
            /\ phrases = NewReturns(chart[1].lyrics))

\* C25: chart and error are never both Some, and once update has handled a
\* Loaded message exactly one of them is Some.
C25_ChartXorError ==
    /\ ~(chart # None /\ error # None)
    /\ loaded => (chart # None \/ error # None)

\* a file failed to decode after the phrases of an earlier file were stored
C25_Witness ==
    /\ loaded
    /\ error # None
    /\ chart = None
    /\ phrases # NoCollection

\* a Parsed message is among the messages not yet delivered
ParsedInFlight == \E i \in 1..Len(queue) : queue[i] = MsgParsed

\* C26: a Loaded message whose text decodes sends a Parsed message (while a
\* chart is stored whose phrases are not, a Parsed message is in flight), and
\* when every message is delivered phrases ends up as the segmentation of the
\* lyrics of the chart stored by the last Loaded that decoded.
C26_PhrasesFollowLastChart ==
    /\ []((Running /\ chart # None /\ phrases # NewReturns(chart[1].lyrics))
              => ParsedInFlight)
    /\ <>[](stored # None => phrases = NewReturns(stored[1].lyrics))

\* the first half of C26 alone
C26_LoadedSendsParsed ==
    (Running /\ chart # None /\ phrases # NewReturns(chart[1].lyrics))
        => ParsedInFlight

\* new panicked in the Parsed arm: the chart of the last Loaded is stored and
\* its phrases are not
C26_PanicInParsed ==
    /\ pc = "panicked"
    /\ stored # None
    /\ chart = stored
    /\ NewPanics(stored[1].lyrics, TRUE)
    /\ phrases = NoCollection

\* every message was delivered, and the phrases are not those of the chart the
\* last Loaded that decoded has stored
C26_StaleAfterDelivery ==
    /\ Running
    /\ queue = <<>>
    /\ \A file_name \in DOMAIN readers : readers[file_name] # "reading"
    /\ stored # None
    /\ phrases # NewReturns(stored[1].lyrics)

====
